---- MODULE Spec2Model ----
(***************************************************************************)
(* django-criterion: benchmark runner with a table-driven significance     *)
(* test.  The model covers core/result_type.py, core/queries.py,           *)
(* core/timing.py and core/__init__.py.                                    *)
(*                                                                         *)
(* Numbers.  Python floats are carried as exact rationals [num, den]       *)
(* (den > 0, lowest terms).  A value that the code obtains with math.sqrt  *)
(* is carried as its sign and its square.  Durations are counted in ticks  *)
(* of the clock (averages and stdev in ticks, variance in ticks^2).        *)
(*                                                                         *)
(* Optional values: None is <<>> and a present value x is <<x>>.           *)
(***************************************************************************)
EXTENDS Integers, Sequences, FiniteSets, TLC

VARIABLES
    mSelf, mOther, mLast,          \* ResultType.merge: arguments, last call
    tNew, tOld, tN, tOut,          \* calc_timing_diff: arguments, outcome
    tVerdict,                      \* Timing.result_type of the sample
    bench,                         \* run_bench: its locals and the database
    pc,                            \* run(): the statement reached
    args,                          \* run(): scripts, output, compare
    new_results,                   \* what run_cases returned
    results,                       \* run(): the local results
    baseline,                      \* the content of the file given to compare
    comparison_data,               \* what load_results returned
    printed,                       \* what print_results printed
    out_file,                      \* the content of the output file
    exit_status,                   \* the status the process exited with
    reloaded                       \* a later load_results of the output file

mergeVars == <<mSelf, mOther, mLast>>
timingVars == <<tNew, tOld, tN, tOut, tVerdict>>
runVars == <<pc, args, new_results, results, baseline, comparison_data,
             printed, out_file, exit_status, reloaded>>

vars == <<mergeVars, timingVars, bench, runVars>>

None == <<>>
Some(x) == <<x>>

----------------------------------------------------------------------------
(* Bounds *)

MaxAvg == 2
MaxStdev == 5

----------------------------------------------------------------------------
(* Exact arithmetic *)

Abs(x) == IF x < 0 THEN -x ELSE x

RECURSIVE GCD(_, _)
GCD(a, b) == IF b = 0 THEN a ELSE GCD(b, a % b)

\* The rational n/d (d # 0) in lowest terms with a positive denominator.
R(n, d) ==
    LET g == GCD(Abs(n), Abs(d))
        s == IF d < 0 THEN -1 ELSE 1
    IN  [num |-> s * (n \div g), den |-> s * (d \div g)]

RInt(k) == [num |-> k, den |-> 1]

RNeg(a) == [num |-> -a.num, den |-> a.den]

RAdd(a, b) ==
    LET g == GCD(a.den, b.den)
        l == (a.den \div g) * b.den
    IN  R(a.num * (l \div a.den) + b.num * (l \div b.den), l)

RSub(a, b) == RAdd(a, RNeg(b))

RMul(a, b) ==
    LET g1 == GCD(Abs(a.num), b.den)
        g2 == GCD(Abs(b.num), a.den)
    IN  R((a.num \div g1) * (b.num \div g2), (a.den \div g2) * (b.den \div g1))

\* b # 0
RDiv(a, b) == RMul(a, R(b.den, b.num))

RSign(a) == IF a.num > 0 THEN 1 ELSE IF a.num < 0 THEN -1 ELSE 0

RLess(a, b) == RSign(RSub(a, b)) < 0
RLeq(a, b) == RSign(RSub(a, b)) <= 0

\* Naturals of any size, little-endian in base 10000, for products that
\* exceed the model checker's integers.
RECURSIVE BigOf(_)
BigOf(k) == IF k < 10000 THEN <<k>> ELSE <<k % 10000>> \o BigOf(k \div 10000)

RECURSIVE BigScale(_, _, _)
BigScale(a, d, carry) ==
    IF a = <<>>
    THEN IF carry = 0 THEN <<>> ELSE <<carry>>
    ELSE LET x == Head(a) * d + carry
         IN  <<x % 10000>> \o BigScale(Tail(a), d, x \div 10000)

RECURSIVE BigAdd(_, _, _)
BigAdd(a, b, carry) ==
    IF a = <<>> /\ b = <<>>
    THEN IF carry = 0 THEN <<>> ELSE <<carry>>
    ELSE LET x == (IF a = <<>> THEN 0 ELSE Head(a))
                  + (IF b = <<>> THEN 0 ELSE Head(b)) + carry
         IN  <<x % 10000>>
             \o BigAdd(IF a = <<>> THEN a ELSE Tail(a),
                       IF b = <<>> THEN b ELSE Tail(b), x \div 10000)

RECURSIVE BigMul(_, _)
BigMul(a, b) ==
    IF b = <<>> THEN <<>>
    ELSE BigAdd(BigScale(a, Head(b), 0), <<0>> \o BigMul(a, Tail(b)), 0)

RECURSIVE BigTrim(_)
BigTrim(a) ==
    IF a # <<>> /\ a[Len(a)] = 0 THEN BigTrim(SubSeq(a, 1, Len(a) - 1)) ELSE a

RECURSIVE BigGeqTrimmed(_, _)
BigGeqTrimmed(a, b) ==
    IF Len(a) # Len(b) THEN Len(a) > Len(b)
    ELSE IF a = <<>> THEN TRUE
    ELSE IF a[Len(a)] # b[Len(b)] THEN a[Len(a)] > b[Len(b)]
    ELSE BigGeqTrimmed(SubSeq(a, 1, Len(a) - 1), SubSeq(b, 1, Len(b) - 1))

RECURSIVE BigProd(_)
BigProd(s) == IF s = <<>> THEN <<1>> ELSE BigMul(BigProd(Tail(s)), BigOf(Head(s)))

\* The product of the naturals in s is at least the product of those in t.
ProdGeq(s, t) == BigGeqTrimmed(BigTrim(BigProd(s)), BigTrim(BigProd(t)))

\* a >= x * x and a <= x * x for rationals a >= 0 and x.
RGeqSquare(a, x) ==
    ProdGeq(<<a.num, x.den, x.den>>, <<Abs(x.num), Abs(x.num), a.den>>)
RLeqSquare(a, x) ==
    ProdGeq(<<Abs(x.num), Abs(x.num), a.den>>, <<a.num, x.den, x.den>>)

\* A value sgn * sqrt(sq): what the code divides by or obtains from math.sqrt.
Root(sgn, sq) == [sgn |-> sgn, sq |-> sq]

\* sgn * sqrt(sq) >= x
RootGeq(t, x) ==
    IF RSign(x) > 0
    THEN t.sgn > 0 /\ RGeqSquare(t.sq, x)
    ELSE t.sgn >= 0 \/ RLeqSquare(t.sq, x)

\* sgn * sqrt(sq) <= x
RootLeq(t, x) == RootGeq(Root(-t.sgn, t.sq), RNeg(x))

----------------------------------------------------------------------------
(* core/result_type.py *)

REGRESSION == "regression"
IMPROVEMENT == "improvement"
MIXED == "mixed"
\* ResultType.UNCHANGED (the bare word is reserved)
UNCHANGED_ == "unchanged"
NO_PREVIOUS_DATA == "no-previous-data"

ResultType == {REGRESSION, IMPROVEMENT, MIXED, UNCHANGED_, NO_PREVIOUS_DATA}

PRECEDENCE == <<MIXED, REGRESSION, IMPROVEMENT, UNCHANGED_, NO_PREVIOUS_DATA>>

\* tuple.index
Index(t, x) == CHOOSE i \in 1..Len(t) : t[i] = x /\ \A j \in 1..(i - 1) : t[j] # x

MergeIgnoringConflict(self, other) ==
    IF Index(PRECEDENCE, self) <= Index(PRECEDENCE, other) THEN self ELSE other

merge(self, other) ==
    IF (self = REGRESSION /\ other = IMPROVEMENT)
       \/ (self = IMPROVEMENT /\ other = REGRESSION)
    THEN MIXED
    ELSE LET self_precendence == Index(PRECEDENCE, self)
             other_precendence == Index(PRECEDENCE, other)
         IN  IF self_precendence <= other_precendence THEN self ELSE other

----------------------------------------------------------------------------
(* core/timing.py *)

TimingDiff(average_diff, negligible) ==
    [average_diff |-> average_diff, negligible |-> negligible]

TimingDiff_result_type(d) ==
    IF d.negligible THEN UNCHANGED_
    ELSE IF RSign(d.average_diff) > 0 THEN REGRESSION ELSE IMPROVEMENT

Timing(average, stdev, variance, diff) ==
    [average |-> average, stdev |-> stdev, variance |-> variance, diff |-> diff]

Timing_result_type(t) ==
    IF t.diff = None THEN NO_PREVIOUS_DATA ELSE TimingDiff_result_type(t.diff[1])

F_TABLE_ALPHA == <<R(1, 100), R(25, 1000), R(5, 100), R(1, 10)>>

\* Critical values in 1/100000.
F_TABLE ==
    (4 :> <<1597700, 960450, 638820, 410725>>)
    @@ (5 :> <<1096700, 714640, 505030, 345298>>)
    @@ (6 :> <<846600, 581980, 428390, 305455>>)
    @@ (7 :> <<699300, 499490, 378700, 278493>>)
    @@ (8 :> <<602900, 443330, 343810, 258935>>)
    @@ (9 :> <<535100, 402600, 317890, 244034>>)
    @@ (10 :> <<484900, 371680, 297820, 232260>>)
    @@ (12 :> <<415500, 327730, 268660, 214744>>)
    @@ (15 :> <<352200, 286210, 240340, 197222>>)
    @@ (20 :> <<293800, 246450, 212420, 179384>>)
    @@ (24 :> <<265900, 226930, 198380, 170185>>)
    @@ (30 :> <<238600, 207400, 184090, 160648>>)
    @@ (40 :> <<211400, 187500, 169280, 150562>>)
    @@ (60 :> <<183600, 166700, 153430, 139520>>)
    @@ (120 :> <<153300, 143300, 135190, 126457>>)

FValue(x) == R(x, 100000)

\* An outcome of a call: the exception raised ("" when none) and the value.
Returned(v) == [raised |-> "", value |-> v]
Raised(e) == [raised |-> e, value |-> RInt(0)]

linear_regression(p1, p2, x) ==
    LET a == RDiv(RSub(p2[2], p1[2]), RSub(p2[1], p1[1]))
        b == RSub(p1[2], RMul(a, p1[1]))
    IN  RAdd(RMul(a, x), b)

fcdf(f, freedom) ==
    IF freedom \notin DOMAIN F_TABLE THEN Raised("KeyError")
    ELSE
    LET table == [i \in 1..4 |-> FValue(F_TABLE[freedom][i])]
        hits == {i \in 1..3 : RLeq(f, table[i]) /\ RLeq(table[i + 1], f)}
    IN  IF RLess(table[1], f) THEN Returned(R(1, 1000))
        ELSE IF RLess(f, table[4]) THEN Returned(R(2, 10))
        ELSE IF hits = {} THEN Raised("Exception")
        ELSE LET down == CHOOSE i \in hits : \A j \in hits : i <= j
                 up == down + 1
             IN  Returned(linear_regression(
                     <<table[down], F_TABLE_ALPHA[down]>>,
                     <<table[up], F_TABLE_ALPHA[up]>>, f))

INV_T_TABLE_FREEDOM == <<8, 18, 25, 30, 60, 120>>

\* Critical values in 1/1000.
INV_T_TABLE ==
    (R(5, 1000) :> <<3355, 2878, 2787, 2750, 2660, 2617>>)
    @@ (R(1, 100) :> <<2896, 2552, 2485, 2457, 2390, 2358>>)
    @@ (R(25, 1000) :> <<2306, 2101, 2060, 2042, 2000, 1980>>)
    @@ (R(5, 100) :> <<1860, 1734, 1708, 1697, 1671, 1658>>)
    @@ (R(1, 10) :> <<1397, 1330, 1316, 1310, 1296, 1289>>)

TValue(x) == R(x, 1000)

invt(a, freedom) ==
    IF a \notin DOMAIN INV_T_TABLE THEN Raised("KeyError")
    ELSE
    LET table == [i \in 1..6 |-> TValue(INV_T_TABLE[a][i])]
        hits == {i \in 1..5 : RLeq(RInt(INV_T_TABLE_FREEDOM[i]), freedom)
                              /\ RLeq(freedom, RInt(INV_T_TABLE_FREEDOM[i + 1]))}
    IN  IF hits = {} THEN Raised("Exception")
        ELSE LET down == CHOOSE i \in hits : \A j \in hits : i <= j
                 up == down + 1
             IN  Returned(linear_regression(
                     <<RInt(INV_T_TABLE_FREEDOM[down]), table[down]>>,
                     <<RInt(INV_T_TABLE_FREEDOM[up]), table[up]>>, freedom))

\* An outcome of calc_timing_diff: the exception raised ("" when none) and
\* the TimingDiff.
DiffReturned(d) == [raised |-> "", diff |-> d]
DiffRaised(e) == [raised |-> e, diff |-> TimingDiff(RInt(0), FALSE)]

\* The default of the parameter a.
DefaultA == R(5, 100)

AverageDiffReversed(new, old) == RSub(old.average, new.average)

\* "average_diff=new.average - old.average"
AverageDiff(new, old) == RSub(new.average, old.average)

\* calc_timing_diff is written below as the chain of its steps, each handing
\* the values computed so far to the next.

\* "reject = t >= t_value or t <= -t_value" and the returned TimingDiff; an
\* exception of invt leaves the function.
Decide(new, old, t, tv) ==
    IF tv.raised # "" THEN DiffRaised(tv.raised)
    ELSE DiffReturned(TimingDiff(
             AverageDiff(new, old),
             ~(RootGeq(t, tv.value) \/ RootLeq(t, RNeg(tv.value)))))

\* t = num / den for a den whose square is den2.
Quotient(num, den2) == Root(RSign(num), RDiv(RMul(num, num), den2))

\* sp * sp, for "sp = math.sqrt(((n - 1) * old.variance + (n - 1) *
\* new.variance) / (2 * n - 2))"
PooledVariance(new, old, n) ==
    RDiv(RAdd(RMul(RInt(n - 1), old.variance), RMul(RInt(n - 1), new.variance)),
         RInt(2 * n - 2))

\* The branch "if ap >= 0.2": t over sp * math.sqrt(2 / n), freedom 2n - 2.
EqualVariances(new, old, n, a) ==
    Decide(new, old,
           Quotient(RSub(old.average, new.average),
                    RMul(PooledVariance(new, old, n), R(2, n))),
           invt(a, RInt(n * 2 - 2)))

\* The Welch-Satterthwaite v, from on = old.variance / n, nn = new.variance / n.
Satterthwaite(on, nn, n) ==
    RDiv(RMul(RAdd(on, nn), RAdd(on, nn)),
         RAdd(RDiv(RMul(on, on), RInt(n - 1)), RDiv(RMul(nn, nn), RInt(n - 1))))

\* The branch "else": t over math.sqrt(old.variance / n + new.variance / n),
\* freedom v, level a / 2.
UnequalVariances(new, old, n, a) ==
    Decide(new, old,
           Quotient(RSub(old.average, new.average),
                    RAdd(RDiv(old.variance, RInt(n)), RDiv(new.variance, RInt(n)))),
           invt(RDiv(a, RInt(2)),
                Satterthwaite(RDiv(old.variance, RInt(n)),
                              RDiv(new.variance, RInt(n)), n)))

\* "ap = 2 * fcdf(...)" and the choice of the branch; an exception of fcdf
\* leaves the function.
Branch(new, old, n, a, p) ==
    IF p.raised # "" THEN DiffRaised(p.raised)
    ELSE IF RLeq(R(2, 10), RMul(RInt(2), p.value))
         THEN EqualVariances(new, old, n, a)
         ELSE UnequalVariances(new, old, n, a)

\* "if f >= 1: ... fcdf(f, n - 1) else: ... fcdf(1 / f, n - 1)"
VarianceRatio(new, old, n, a, f) ==
    IF RLeq(RInt(1), f) THEN Branch(new, old, n, a, fcdf(f, n - 1))
    ELSE IF RSign(f) = 0 THEN DiffRaised("ZeroDivisionError")
    ELSE Branch(new, old, n, a, fcdf(RDiv(RInt(1), f), n - 1))

calc_timing_diff(new, old, n, a) ==
    IF RSign(new.variance) = 0 THEN DiffRaised("ZeroDivisionError")
    ELSE VarianceRatio(new, old, n, a, RDiv(old.variance, new.variance))

----------------------------------------------------------------------------
(* core/queries.py *)

Queries(value, captured_queries, diff) ==
    [value |-> value, captured_queries |-> captured_queries, diff |-> diff]

Queries_result_type(q) ==
    IF q.diff = None THEN NO_PREVIOUS_DATA
    ELSE IF RSign(q.diff[1]) = 0 THEN UNCHANGED_
    ELSE IF RSign(q.diff[1]) > 0 THEN REGRESSION
    ELSE IMPROVEMENT

----------------------------------------------------------------------------
(* core/__init__.py: BenchmarkResult *)

BenchmarkResult(queries, timing) == [queries |-> queries, timing |-> timing]

BenchmarkResult_result_type(r) ==
    merge(Queries_result_type(r.queries), Timing_result_type(r.timing))

----------------------------------------------------------------------------
(* Bounds of run_bench *)

MaxSamples == 3
MaxQueries == 2

----------------------------------------------------------------------------
(* The variables a specification leaves alone *)

NoCall == <<>>

IdleMerge == mSelf = NO_PREVIOUS_DATA /\ mOther = NO_PREVIOUS_DATA /\ mLast = NoCall

IdleTiming == tNew = None /\ tOld = None /\ tN = 0 /\ tOut = None /\ tVerdict = None

IdleBench == bench = [pc |-> "idle"]

IdleRun ==
    /\ pc = "idle" /\ args = None
    /\ new_results = None /\ results = None
    /\ baseline = None /\ comparison_data = None
    /\ printed = None /\ out_file = None
    /\ exit_status = None /\ reloaded = None

----------------------------------------------------------------------------
(* ResultType.merge as a function of its two arguments *)

InitMerge ==
    /\ mSelf \in ResultType
    /\ mOther \in ResultType
    /\ mLast = NoCall
    /\ IdleTiming /\ IdleBench /\ IdleRun

\* The caller evaluates self.merge(other).
MergeCall ==
    /\ mLast' = <<[self |-> mSelf, other |-> mOther,
                  result |-> merge(mSelf, mOther)]>>
    /\ UNCHANGED <<mSelf, mOther, timingVars, bench, runVars>>

\* The caller goes on to another pair of verdicts.
MergePick ==
    /\ mLast # NoCall
    /\ mSelf' \in ResultType
    /\ mOther' \in ResultType
    /\ UNCHANGED <<mLast, timingVars, bench, runVars>>

NextMerge == MergeCall \/ MergePick

SpecMerge == InitMerge /\ [][NextMerge]_vars

----------------------------------------------------------------------------
(* calc_timing_diff and Timing.result_type as functions of their arguments *)

\* Sample sizes handed to calc_timing_diff: below, inside and above the
\* coverage of the tables.
SampleSizes == {2, 3, 5, 6, 9, 10, 12, 31, 61, 121}

TimingSamples ==
    {Timing(RInt(avg), RInt(sd), RInt(sd * sd), None) :
        avg \in 0..MaxAvg, sd \in 0..MaxStdev}

InitTiming ==
    /\ tNew \in {Some(t) : t \in TimingSamples}
    /\ tOld \in {Some(t) : t \in TimingSamples}
    /\ tN \in SampleSizes
    /\ tOut = None
    /\ tVerdict = None
    /\ IdleMerge /\ IdleBench /\ IdleRun

\* compare_results finds the benchmark in the old run and compares.
CalcTimingDiff ==
    /\ tOut = None
    /\ tVerdict = None
    /\ tOut' = Some(calc_timing_diff(tNew[1], tOld[1], tN, DefaultA))
    /\ UNCHANGED <<tNew, tOld, tN, tVerdict, mergeVars, bench, runVars>>

\* The Timing that compare_results builds around a diff.
WithDiff(t, diff) == Timing(t.average, t.stdev, t.variance, Some(diff))

\* Timing.result_type of the new sample: as measured when nothing was
\* compared, with the diff attached when calc_timing_diff returned one.
TimingResultType ==
    /\ tVerdict = None
    /\ \/ /\ tOut = None
          /\ tVerdict' = Some(Timing_result_type(tNew[1]))
       \/ /\ tOut # None
          /\ tOut[1].raised = ""
          /\ tVerdict' = Some(Timing_result_type(WithDiff(tNew[1], tOut[1].diff)))
    /\ UNCHANGED <<tNew, tOld, tN, tOut, mergeVars, bench, runVars>>

NextTiming == CalcTimingDiff \/ TimingResultType

SpecTiming == InitTiming /\ [][NextTiming]_vars

----------------------------------------------------------------------------
(* run_bench, statement by statement *)

\* The k records a CaptureQueriesContext holds after an invocation that ran k
\* queries; the "time" of a record stands for the invocation it was taken in.
Captured(k, invocation) == [j \in 1..k |-> [sql |-> j, time |-> invocation]]

\* What statistics.mean and statistics.stdev can return for measured
\* durations: the clock decides.
MeasuredTimings == {t \in TimingSamples : RSign(t.average) > 0}

FlushEverySample(is_pure) == TRUE

\* "if not is_pure" of run_bench
NeedsFlush(is_pure) == ~is_pure

\* "if i == sample_size - 1" of run_bench
KeepsCaptured(i, sample_size) == i = sample_size - 1

InitBench ==
    /\ \E is_pure \in BOOLEAN, setup_writes \in BOOLEAN, n \in 0..MaxSamples :
         bench = [pc |-> IF n > 0 THEN "setup" ELSE "stats",
                  is_pure |-> is_pure,
                  setup_writes |-> setup_writes,
                  sample_size |-> n,
                  i |-> 0,
                  total |-> 0,
                  timings |-> 0,
                  queries |-> <<>>,
                  captured_queries |-> <<>>,
                  db |-> {},
                  calls |-> [setup |-> 0, f |-> 0, flush |-> 0],
                  result |-> None]
    /\ IdleMerge /\ IdleTiming /\ IdleRun

\* case.setup()
Setup ==
    /\ bench.pc = "setup"
    /\ bench' = [bench EXCEPT
         !.pc = "invoke",
         !.db = IF bench.setup_writes
                THEN @ \cup {[by |-> "setup", sample |-> bench.i + 1]} ELSE @,
         !.calls.setup = @ + 1]
    /\ UNCHANGED <<mergeVars, timingVars, runVars>>

\* f() inside CaptureQueriesContext, then timings.append and total +=
Invoke ==
    /\ bench.pc = "invoke"
    /\ \E k \in 0..MaxQueries :
         bench' = [bench EXCEPT
           !.pc = IF NeedsFlush(bench.is_pure) THEN "flush" ELSE "keep",
           !.queries = Captured(k, bench.i + 1),
           !.timings = @ + 1,
           !.total = @ + k,
           !.db = IF bench.is_pure THEN @
                  ELSE @ \cup {[by |-> "f", sample |-> bench.i + 1]},
           !.calls.f = @ + 1]
    /\ UNCHANGED <<mergeVars, timingVars, runVars>>

\* flush(connection)
Flush ==
    /\ bench.pc = "flush"
    /\ bench' = [bench EXCEPT !.pc = "keep", !.db = {}, !.calls.flush = @ + 1]
    /\ UNCHANGED <<mergeVars, timingVars, runVars>>

\* The end of the loop body: the last sample's context is kept.
EndSample ==
    /\ bench.pc = "keep"
    /\ bench' = [bench EXCEPT
         !.pc = IF bench.i + 1 < bench.sample_size THEN "setup" ELSE "stats",
         !.captured_queries =
             IF KeepsCaptured(bench.i, bench.sample_size) THEN bench.queries ELSE @,
         !.i = @ + 1]
    /\ UNCHANGED <<mergeVars, timingVars, runVars>>

\* statistics.mean and statistics.stdev raise StatisticsError on fewer than
\* one and two data points.
StatsRaise ==
    /\ bench.pc = "stats"
    /\ bench.timings < 2
    /\ bench' = [bench EXCEPT !.pc = "raised"]
    /\ UNCHANGED <<mergeVars, timingVars, runVars>>

\* The statistics and the returned BenchmarkResult.
StatsReturn ==
    /\ bench.pc = "stats"
    /\ bench.timings >= 2
    /\ \E t \in MeasuredTimings :
         bench' = [bench EXCEPT
           !.pc = "returned",
           !.result = Some(BenchmarkResult(
               Queries(R(bench.total, bench.sample_size),
                       bench.captured_queries, None),
               Timing(t.average, t.stdev, t.variance, None)))]
    /\ UNCHANGED <<mergeVars, timingVars, runVars>>

NextBench == Setup \/ Invoke \/ Flush \/ EndSample \/ StatsRaise \/ StatsReturn

SpecBench == InitBench /\ [][NextBench]_vars

----------------------------------------------------------------------------
(* JSON documents: json.dump of dataclasses.asdict, and the from_dict readers *)

JNull == [t |-> "null"]
JNum(x) == [t |-> "num", v |-> x]
JBool(x) == [t |-> "bool", v |-> x]
JStr(x) == [t |-> "str", v |-> x]
JArr(x) == [t |-> "arr", v |-> x]
JObj(x) == [t |-> "obj", v |-> x]

\* A file: whether json.load can parse its text, and the document it holds.
File(doc) == [parses |-> TRUE, doc |-> doc]
Unparseable == [parses |-> FALSE, doc |-> JNull]

AsDictTimingDiff(d) ==
    JObj([average_diff |-> JNum(d.average_diff), negligible |-> JBool(d.negligible)])

AsDictTiming(t) ==
    JObj([average |-> JNum(t.average),
          stdev |-> JNum(t.stdev),
          variance |-> JNum(t.variance),
          diff |-> IF t.diff = None THEN JNull ELSE AsDictTimingDiff(t.diff[1])])

AsDictQueries(q) ==
    JObj([value |-> JNum(q.value),
          captured_queries |->
              JArr([j \in 1..Len(q.captured_queries) |->
                      JObj([sql |-> JStr(q.captured_queries[j].sql),
                            time |-> JStr(q.captured_queries[j].time)])]),
          diff |-> IF q.diff = None THEN JNull ELSE JNum(q.diff[1])])

\* dataclasses.asdict(bench_result)
asdict(r) ==
    JObj([queries |-> AsDictQueries(r.queries), timing |-> AsDictTiming(r.timing)])

\* write_output: what json.dump puts in the file.
write_output(data) ==
    File(JObj([case \in DOMAIN data |->
                 JObj([b \in DOMAIN data[case] |-> asdict(data[case][b])])]))

\* d[key] succeeds: d is an object that has the key.
HasKey(d, key) == d.t = "obj" /\ key \in DOMAIN d.v

Queries_from_dict(d) == Queries(d.v["value"].v, <<>>, None)

TimingFromDictAverageFromStdev(d) ==
    Timing(d.v["stdev"].v, d.v["stdev"].v, d.v["variance"].v, None)

Timing_from_dict(d) ==
    Timing(d.v["average"].v, d.v["stdev"].v, d.v["variance"].v, None)

BenchmarkResult_from_dict(d) ==
    BenchmarkResult(Queries_from_dict(d.v["queries"]), Timing_from_dict(d.v["timing"]))

\* BenchmarkResult.from_dict(d) raises nothing.
FromDictSucceeds(d) ==
    /\ HasKey(d, "queries") /\ HasKey(d.v["queries"], "value")
    /\ HasKey(d, "timing")
    /\ HasKey(d.v["timing"], "average")
    /\ HasKey(d.v["timing"], "stdev")
    /\ HasKey(d.v["timing"], "variance")

\* The try block of load_results raises nothing.
Loads(f) ==
    /\ f.parses
    /\ f.doc.t = "obj"
    /\ \A case \in DOMAIN f.doc.v :
         /\ f.doc.v[case].t = "obj"
         /\ \A b \in DOMAIN f.doc.v[case].v : FromDictSucceeds(f.doc.v[case].v[b])

\* An outcome of load_results: sys.exit(1) was called, or the mapping.
Loaded(v) == [exit |-> FALSE, value |-> v]
Exited == [exit |-> TRUE, value |-> <<>>]

LoadResultsSwallowingErrors(f) ==
    IF ~Loads(f) THEN Loaded(<<>>)
    ELSE Loaded([case \in DOMAIN f.doc.v |->
                   [b \in DOMAIN f.doc.v[case].v |->
                      BenchmarkResult_from_dict(f.doc.v[case].v[b])]])

load_results(f) ==
    IF ~Loads(f) THEN Exited
    ELSE Loaded([case \in DOMAIN f.doc.v |->
                   [b \in DOMAIN f.doc.v[case].v |->
                      BenchmarkResult_from_dict(f.doc.v[case].v[b])]])

----------------------------------------------------------------------------
(* compare_results *)

QueriesDiffReversed(result, result_b) ==
    RSub(result_b.queries.value, result.queries.value)

\* "diff=result.queries.value - result_b.queries.value"
QueriesDiff(result, result_b) ==
    RSub(result.queries.value, result_b.queries.value)

\* The body of the inner loop for a benchmark found in both runs.
CompareBench(result, result_b, n) ==
    LET timing_diff == calc_timing_diff(result.timing, result_b.timing, n, DefaultA)
    IN  [raised |-> timing_diff.raised,
         value |-> BenchmarkResult(
             Queries(result.queries.value, result.queries.captured_queries,
                     Some(QueriesDiff(result, result_b))),
             Timing(result.timing.average, result.timing.stdev,
                    result.timing.variance, Some(timing_diff.diff)))]

\* The pairs (case, benchmark) that are in both runs.
InBoth(a, b) ==
    {cb \in UNION {{<<case, bn>> : bn \in DOMAIN a[case]} : case \in DOMAIN a} :
        cb[1] \in DOMAIN b /\ cb[2] \in DOMAIN b[cb[1]]}

ComparisonDroppingNew(a, b, compared) ==
    [case \in DOMAIN a \cap DOMAIN b |->
       [bn \in DOMAIN a[case] \cap DOMAIN b[case] |-> compared[<<case, bn>>].value]]

\* The returned mapping, from what the inner loop body made of each pair in
\* both runs; a benchmark or a case that b lacks is taken over from a.
Comparison(a, b, compared) ==
    [case \in DOMAIN a |->
       IF case \notin DOMAIN b THEN a[case]
       ELSE [bn \in DOMAIN a[case] |->
               IF bn \notin DOMAIN b[case] THEN a[case][bn]
               ELSE compared[<<case, bn>>].value]]

\* An exception of calc_timing_diff leaves compare_results; which of several
\* is first does not matter to the caller.
Outcome(a, b, compared) ==
    LET errors == {compared[cb].raised : cb \in DOMAIN compared} \ {""}
    IN  [raised |-> IF errors = {} THEN "" ELSE CHOOSE e \in errors : TRUE,
         value |-> Comparison(a, b, compared)]

compare_results(a, b, n) ==
    Outcome(a, b, [cb \in InBoth(a, b) |->
                     CompareBench(a[cb[1]][cb[2]], b[cb[1]][cb[2]], n)])

\* The verdicts print_results prints for each benchmark.
print_results(data) ==
    [case \in DOMAIN data |->
       [bn \in DOMAIN data[case] |->
          [result |-> BenchmarkResult_result_type(data[case][bn]),
           queries |-> Queries_result_type(data[case][bn].queries),
           timing |-> Timing_result_type(data[case][bn].timing)]]]

----------------------------------------------------------------------------
(* run() *)

\* "sample_size=61"
sample_size == 61

\* The benchmark cases of the scripts given to the command, with their
\* bench_ methods.
CaseA == "benchmarks.CaseA"
CaseB == "benchmarks.CaseB"
Retired == "benchmarks.Retired"

get_cases(scripts) ==
    IF scripts = <<>> THEN <<>>
    ELSE (CaseA :> {"bench_create", "bench_list"}) @@ (CaseB :> {"bench_create"})

\* What run_bench can return for one benchmark (see SpecBench): no query at
\* all, one in every sample, or one more in the last sample.
RunCosts ==
    {Queries(R(0, sample_size), Captured(0, sample_size), None),
     Queries(R(sample_size, sample_size), Captured(1, sample_size), None),
     Queries(R(sample_size + 1, sample_size), Captured(2, sample_size), None)}

RunTimings == {Timing(RInt(2), RInt(1), RInt(1), None)}

RunResults == {BenchmarkResult(q, t) : q \in RunCosts, t \in RunTimings}

\* The benchmarks of an earlier run, as a baseline file holds them.
OldTimings ==
    {Timing(RInt(1), RInt(1), RInt(1), None),
     Timing(RInt(2), RInt(1), RInt(1), None),
     Timing(RInt(3), RInt(1), RInt(1), None),
     Timing(RInt(2), RInt(0), RInt(0), None)}

OldResults ==
    {BenchmarkResult(Queries(RInt(1), Captured(1, sample_size), None), t) :
        t \in OldTimings}

\* What the earlier run measured for bench_list and for the benchmarks that
\* only it had.
OldOnly ==
    BenchmarkResult(Queries(RInt(1), <<>>, None),
                    Timing(RInt(1), RInt(1), RInt(1), None))

\* An old case: each of the named benchmarks absent or one of the results.
OldCases(names, old) == UNION {[present -> old] : present \in SUBSET names}

OldRuns ==
    {a @@ b @@ (Retired :> ("bench_old" :> OldOnly)) :
        a \in {<<>>} \cup {CaseA :> (c @@ l @@ ("bench_old" :> OldOnly)) :
                  c \in OldCases({"bench_create"}, OldResults),
                  l \in OldCases({"bench_list"}, {OldOnly})},
        b \in {<<>>} \cup {CaseB :> c : c \in OldCases({"bench_create"}, OldResults)}}

\* A file whose benchmark lacks the timing.
MissingField ==
    File(JObj(CaseA :> JObj("bench_create" :>
        JObj([queries |-> JObj([value |-> JNum(RInt(1))])]))))

Files == {write_output(old) : old \in OldRuns} \cup {Unparseable, MissingField}

Init ==
    /\ pc = "get_cases"
    /\ args \in {Some([scripts |-> s, output |-> o, compare |-> c]) :
                    s \in {<<>>, <<"benchmarks">>}, o \in BOOLEAN, c \in BOOLEAN}
    /\ new_results = None /\ results = None
    /\ baseline = None /\ comparison_data = None
    /\ printed = None /\ out_file = None
    /\ exit_status = None /\ reloaded = None
    /\ IdleMerge /\ IdleTiming /\ IdleBench

\* "if not cases": "Nothing to do." and sys.exit(0)
NothingToDo ==
    /\ pc = "get_cases"
    /\ get_cases(args[1].scripts) = <<>>
    /\ pc' = "exited"
    /\ exit_status' = Some(0)
    /\ UNCHANGED <<args, new_results, results, baseline, comparison_data,
                   printed, out_file, reloaded, mergeVars, timingVars, bench>>

\* run_cases inside test_database()
RunCases ==
    /\ pc = "get_cases"
    /\ get_cases(args[1].scripts) # <<>>
    /\ LET cases == get_cases(args[1].scripts)
       IN  \E measured \in [UNION {{<<case, bn>> : bn \in cases[case]} :
                               case \in DOMAIN cases} -> RunResults] :
             /\ results' = Some([case \in DOMAIN cases |->
                                   [bn \in cases[case] |-> measured[<<case, bn>>]]])
             /\ new_results' = results'
    /\ pc' = IF args[1].compare THEN "load" ELSE "print"
    /\ UNCHANGED <<args, baseline, comparison_data, printed, out_file,
                   exit_status, reloaded, mergeVars, timingVars, bench>>

\* "comparison_data = load_results(f)": the file holds what its writer put
\* there.
LoadResults ==
    /\ pc = "load"
    /\ \E f \in Files :
         /\ baseline' = Some(f)
         /\ IF load_results(f).exit
            THEN /\ pc' = "exited"
                 /\ exit_status' = Some(1)
                 /\ UNCHANGED comparison_data
            ELSE /\ pc' = "compare"
                 /\ comparison_data' = Some(load_results(f).value)
                 /\ UNCHANGED exit_status
    /\ UNCHANGED <<args, new_results, results, printed, out_file, reloaded,
                   mergeVars, timingVars, bench>>

\* "results = compare_results(results, comparison_data, sample_size)"; an
\* exception is not caught and ends the process with a traceback.
CompareResults ==
    /\ pc = "compare"
    /\ LET r == compare_results(results[1], comparison_data[1], sample_size)
       IN  IF r.raised # ""
           THEN /\ pc' = "crashed"
                /\ exit_status' = Some(1)
                /\ UNCHANGED results
           ELSE /\ pc' = "print"
                /\ results' = Some(r.value)
                /\ UNCHANGED exit_status
    /\ UNCHANGED <<args, new_results, baseline, comparison_data, printed,
                   out_file, reloaded, mergeVars, timingVars, bench>>

PrintResults ==
    /\ pc = "print"
    /\ printed' = Some(print_results(results[1]))
    /\ pc' = IF args[1].output THEN "write" ELSE "finish"
    /\ UNCHANGED <<args, new_results, results, baseline, comparison_data,
                   out_file, exit_status, reloaded, mergeVars, timingVars, bench>>

\* "with open(output, "w") as f: write_output(f, results)"
WriteOutput ==
    /\ pc = "write"
    /\ out_file' = Some(write_output(results[1]))
    /\ pc' = "finish"
    /\ UNCHANGED <<args, new_results, results, baseline, comparison_data,
                   printed, exit_status, reloaded, mergeVars, timingVars, bench>>

\* "Ran ... cases." and the return of run()
Finish ==
    /\ pc = "finish"
    /\ pc' = "done"
    /\ exit_status' = Some(0)
    /\ UNCHANGED <<args, new_results, results, baseline, comparison_data,
                   printed, out_file, reloaded, mergeVars, timingVars, bench>>

\* A later run is given the written file to compare against: its
\* load_results reads it.
LoadOutput ==
    /\ pc = "done"
    /\ out_file # None
    /\ reloaded = None
    /\ reloaded' = Some(load_results(out_file[1]))
    /\ UNCHANGED <<pc, args, new_results, results, baseline, comparison_data,
                   printed, out_file, exit_status, mergeVars, timingVars, bench>>

Next ==
    \/ NothingToDo
    \/ RunCases
    \/ LoadResults
    \/ CompareResults
    \/ PrintResults
    \/ WriteOutput
    \/ Finish
    \/ LoadOutput

Spec == Init /\ [][Next]_vars

----------------------------------------------------------------------------
(* Properties of ResultType.merge, under SpecMerge *)

\* The order MIXED > REGRESSION > IMPROVEMENT > UNCHANGED > NO_PREVIOUS_DATA.
ClaimedRank(v) ==
    CASE v = MIXED -> 1
      [] v = REGRESSION -> 2
      [] v = IMPROVEMENT -> 3
      [] v = UNCHANGED_ -> 4
      [] v = NO_PREVIOUS_DATA -> 5

\* C1: for every pair of verdicts, merge gives MIXED for REGRESSION with
\* IMPROVEMENT in either order, and otherwise the one of the two that comes
\* first in the order MIXED > REGRESSION > IMPROVEMENT > UNCHANGED >
\* NO_PREVIOUS_DATA.
C1_MergeTable ==
    mLast # NoCall =>
        LET c == mLast[1]
        IN  c.result =
              IF {c.self, c.other} = {REGRESSION, IMPROVEMENT} THEN MIXED
              ELSE IF ClaimedRank(c.self) <= ClaimedRank(c.other) THEN c.self
              ELSE c.other

\* IMPROVEMENT.merge(REGRESSION) was called and gave MIXED.
C1_Witness ==
    /\ mLast # NoCall
    /\ mLast[1] = [self |-> IMPROVEMENT, other |-> REGRESSION, result |-> MIXED]

----------------------------------------------------------------------------
(* Properties of calc_timing_diff and Timing.result_type, under SpecTiming *)

Positive(x) == RSign(x) > 0

\* C2: for samples with the same average and the same variance, and every
\* sample size, calc_timing_diff returns a TimingDiff with negligible = true.
\* Stated for positive variances, where the variance ratio is defined.
C2_IdenticalNegligible ==
    (/\ tOut # None
     /\ tNew[1].average = tOld[1].average
     /\ tNew[1].variance = tOld[1].variance
     /\ Positive(tNew[1].variance))
    => (tOut[1].raised = "" /\ tOut[1].diff.negligible)

\* C3: the timing verdict is NO_PREVIOUS_DATA when no diff was computed,
\* UNCHANGED when the diff is negligible, and otherwise REGRESSION when
\* average_diff = new.average - old.average is positive and IMPROVEMENT when
\* not; new average 2 against old average 1 with variance 1 and n = 61 is
\* rejected and gives REGRESSION with average_diff +1.
C3_TimingVerdict ==
    tVerdict # None =>
        IF tOut = None THEN tVerdict[1] = NO_PREVIOUS_DATA
        ELSE LET d == tOut[1].diff
                 delta == RSub(tNew[1].average, tOld[1].average)
             IN  /\ d.average_diff = delta
                 /\ tVerdict[1] = IF d.negligible THEN UNCHANGED_
                                  ELSE IF Positive(delta) THEN REGRESSION
                                  ELSE IMPROVEMENT
                 /\ (/\ tN = 61
                     /\ tNew[1].average = RInt(2) /\ tOld[1].average = RInt(1)
                     /\ tNew[1].variance = RInt(1) /\ tOld[1].variance = RInt(1))
                    => (/\ ~d.negligible
                        /\ tVerdict[1] = REGRESSION
                        /\ d.average_diff = RInt(1))

\* The slower new sample of the example was compared and classified.
C3_Witness ==
    /\ tN = 61
    /\ tNew[1].average = RInt(2) /\ tOld[1].average = RInt(1)
    /\ tNew[1].variance = RInt(1) /\ tOld[1].variance = RInt(1)
    /\ tOut # None
    /\ tVerdict = Some(REGRESSION)

\* C8: for every sample size n >= 2 and every pair of samples with positive
\* variance, the F-table lookup and the inverse-t lookup find a row or a
\* bracketing pair: calc_timing_diff never ends in a lookup failure.
C8_LookupsCovered ==
    (/\ tOut # None
     /\ tN >= 2
     /\ Positive(tNew[1].variance)
     /\ Positive(tOld[1].variance))
    => tOut[1].raised \notin {"KeyError", "Exception"}

----------------------------------------------------------------------------
(* Properties of run_bench, under SpecBench *)

\* C9: the samples run one after another, each a setup, one invocation and,
\* for a benchmark that is not pure only, one flush before the next setup; a
\* benchmark that is not pure never starts on rows an earlier sample left, a
\* pure one is never followed by a flush, the benchmark is invoked exactly
\* sample_size times, and the captured queries of the result are those of
\* the last invocation.
C9_SampleProtocol ==
    LET b == bench
        flushes(k) == IF b.is_pure THEN 0 ELSE k
        done(s, f, fl) == b.calls = [setup |-> s, f |-> f, flush |-> fl]
    IN  /\ b.pc = "setup" => b.i < b.sample_size /\ done(b.i, b.i, flushes(b.i))
        /\ b.pc = "invoke" => done(b.i + 1, b.i, flushes(b.i))
        /\ b.pc = "flush" => ~b.is_pure /\ done(b.i + 1, b.i + 1, b.i)
        /\ b.pc = "keep" => done(b.i + 1, b.i + 1, flushes(b.i + 1))
        /\ b.pc = "invoke" /\ ~b.is_pure => \A row \in b.db : row.sample = b.i + 1
        /\ b.pc \in {"stats", "raised", "returned"} =>
               done(b.sample_size, b.sample_size, flushes(b.sample_size))
        /\ b.pc = "returned" =>
               /\ b.result[1].queries.captured_queries = b.queries
               /\ \A j \in 1..Len(b.result[1].queries.captured_queries) :
                      b.result[1].queries.captured_queries[j].time = b.sample_size

\* A benchmark that is not pure returned after three samples, the last of
\* which ran queries, with setups that write.
C9_Witness ==
    /\ bench.pc = "returned"
    /\ ~bench.is_pure
    /\ bench.setup_writes
    /\ bench.sample_size = 3
    /\ bench.calls.flush = 3
    /\ Len(bench.result[1].queries.captured_queries) = 2
    /\ bench.total > 2

----------------------------------------------------------------------------
(* Properties of run(), under Spec *)

\* The benchmark of the old run that compare_results pairs with a new one.
OldOf(case, bn) ==
    IF /\ comparison_data # None
       /\ case \in DOMAIN comparison_data[1]
       /\ bn \in DOMAIN comparison_data[1][case]
    THEN Some(comparison_data[1][case][bn])
    ELSE None

\* C4: the cost verdict follows the delta alone: NO_PREVIOUS_DATA without a
\* baseline, UNCHANGED for 0, REGRESSION above 0, IMPROVEMENT below 0; and
\* the delta of a benchmark found in both runs is new.value - old.value.
C4_CostVerdict ==
    printed # None =>
        \A case \in DOMAIN printed[1] :
            \A bn \in DOMAIN printed[1][case] :
                LET q == results[1][case][bn].queries
                    new == new_results[1][case][bn].queries
                    old == OldOf(case, bn)
                    verdict == printed[1][case][bn].queries
                IN  IF old = None
                    THEN q.diff = None /\ verdict = NO_PREVIOUS_DATA
                    ELSE LET delta == RSub(new.value, old[1].queries.value)
                         IN  /\ q.diff = Some(delta)
                             /\ verdict = IF RSign(delta) = 0 THEN UNCHANGED_
                                          ELSE IF RSign(delta) > 0 THEN REGRESSION
                                          ELSE IMPROVEMENT

\* One run printed a cost regression, a cost improvement and an unchanged
\* cost.
C4_Witness ==
    /\ printed # None
    /\ printed[1][CaseA]["bench_create"].queries = REGRESSION
    /\ printed[1][CaseA]["bench_list"].queries = IMPROVEMENT
    /\ printed[1][CaseB]["bench_create"].queries = UNCHANGED_

\* C5: compare_results returns the case names of the new run and, under
\* each, its benchmark names; a case that the old run lacks, and a benchmark
\* that the old case lacks, is the new BenchmarkResult itself, with combined
\* verdict NO_PREVIOUS_DATA; what only the old run has is not in the output.
C5_ComparisonShape ==
    (comparison_data # None /\ pc \in {"print", "write", "finish", "done"}) =>
        LET a == new_results[1]
            b == comparison_data[1]
            out == results[1]
        IN  /\ DOMAIN out = DOMAIN a
            /\ \A case \in DOMAIN a :
                 /\ DOMAIN out[case] = DOMAIN a[case]
                 /\ \A bn \in DOMAIN a[case] :
                      OldOf(case, bn) = None =>
                          /\ out[case][bn] = a[case][bn]
                          /\ BenchmarkResult_result_type(out[case][bn])
                                 = NO_PREVIOUS_DATA
                          /\ printed # None =>
                                 printed[1][case][bn].result = NO_PREVIOUS_DATA

\* compare_results returned for an old run that has CaseA without its
\* bench_create, has no CaseB, and has a case and a benchmark of its own.
C5_Witness ==
    /\ pc = "write"
    /\ comparison_data # None
    /\ DOMAIN comparison_data[1] = {CaseA, Retired}
    /\ DOMAIN comparison_data[1][CaseA] = {"bench_list", "bench_old"}
    /\ results[1][CaseA]["bench_list"].queries.diff # None

\* C6: write_output followed by load_results gives, for every case and
\* benchmark written, the same cost value and the same timing average,
\* standard deviation and variance, with no timing diff, no cost diff and no
\* captured queries, whether or not a comparison was written.
C6_RoundTrip ==
    reloaded # None =>
        /\ ~reloaded[1].exit
        /\ LET back == reloaded[1].value
               data == results[1]
           IN  /\ DOMAIN back = DOMAIN data
               /\ \A case \in DOMAIN data :
                    /\ DOMAIN back[case] = DOMAIN data[case]
                    /\ \A bn \in DOMAIN data[case] :
                         LET r == back[case][bn]
                             w == data[case][bn]
                         IN  /\ r.queries.value = w.queries.value
                             /\ r.timing.average = w.timing.average
                             /\ r.timing.stdev = w.timing.stdev
                             /\ r.timing.variance = w.timing.variance
                             /\ r.timing.diff = None
                             /\ r.queries.diff = None
                             /\ r.queries.captured_queries = <<>>

\* Results with a comparison and captured queries were written and read
\* back.
C6_Witness ==
    /\ reloaded # None
    /\ results[1][CaseA]["bench_create"].timing.diff # None
    /\ results[1][CaseA]["bench_create"].queries.diff # None
    /\ Len(results[1][CaseA]["bench_create"].queries.captured_queries) = 2

\* C7: the output file holds, per benchmark, only the cost value and the
\* timing average, standard deviation and variance: no record of a captured
\* query is written.
C7_NoQueryRecordsPersisted ==
    out_file # None =>
        \A case \in DOMAIN out_file[1].doc.v :
            \A bn \in DOMAIN out_file[1].doc.v[case].v :
                LET q == out_file[1].doc.v[case].v[bn].v["queries"].v
                IN  "captured_queries" \in DOMAIN q =>
                        q["captured_queries"].v = <<>>

\* C10: when the baseline file is malformed (not parseable, or a required
\* field is missing), the process exits with status 1 and nothing went on:
\* no comparison, no printed results, no output file.
C10_MalformedBaselineExits ==
    (baseline # None /\ baseline[1] \in {Unparseable, MissingField}) =>
        /\ pc = "exited"
        /\ exit_status = Some(1)
        /\ comparison_data = None
        /\ results = new_results
        /\ printed = None
        /\ out_file = None
        /\ reloaded = None

\* A run that was to write an output file exited on a baseline with a
\* missing field.
C10_Witness ==
    /\ pc = "exited"
    /\ baseline = Some(MissingField)
    /\ args[1].output
    /\ exit_status = Some(1)

====
